---- MODULE Spec2Model ----
(***************************************************************************)
(* A model of stripeline/maptools.py: the map-making functions             *)
(* nonoise_map and binned_map, the ConditionMatrix accumulator and the     *)
(* MPI reduction of binned_map_strip.                                      *)
(*                                                                         *)
(* Python arrays are 0-based; here an array is a sequence and At/Put read  *)
(* and write the element of a 0-based index.  Real numbers are exact       *)
(* rationals <<numerator, denominator>> in lowest terms: the sums,         *)
(* products and quotients of the code are computed without rounding.       *)
(***************************************************************************)
EXTENDS Integers, Sequences, FiniteSets, TLC

\* ------------------------------------------------------------- bounds
\* Longest signal / pixel-index sequence handed to nonoise_map, binned_map.
MaxLen == 2
\* Largest number of pixels of a map.
NPix == 2
\* Most samples the ConditionMatrix objects are given, all updates together.
MaxFed == 3
\* Singular values are located on a grid of 1/Resolution.
Resolution == 16
\* The workers of a run of binned_map_strip.
NumWorkers == 2
\* Most samples the ToiProviders of the workers supply, all together.
MaxSamples == 3

\* ---------------------------------------------------------- arithmetic
Abs(x) == IF x < 0 THEN -x ELSE x

RECURSIVE GCD(_, _)
GCD(a, b) == IF b = 0 THEN a ELSE GCD(b, a % b)

\* The rational n/d (d > 0) in lowest terms.
Norm(n, d) == LET g == GCD(Abs(n), d) IN <<n \div g, d \div g>>

Rat(k) == <<k, 1>>
RAdd(a, b) == Norm(a[1] * b[2] + b[1] * a[2], a[2] * b[2])
RMulInt(a, k) == Norm(a[1] * k, a[2])
RDivInt(a, k) == Norm(a[1], a[2] * k)

\* ---------------------------------------------------------- arrays
At(a, i) == a[i + 1]
Put(a, i, v) == [a EXCEPT ![i + 1] = v]
Indices(a) == 0 .. (Len(a) - 1)
\* np.zeros(n): n float zeros; np.zeros(n, dtype='int'), np.zeros(n, dtype='bool').
zeros(n) == [p \in 1 .. n |-> Rat(0)]
zeros_int(n) == [p \in 1 .. n |-> 0]
zeros_bool(n) == [p \in 1 .. n |-> FALSE]

SeqsUpTo(S, n) == UNION {[1 .. k -> S] : k \in 0 .. n}

\* ------------------------------------------------------------- state
VARIABLES
    \* one call of nonoise_map or binned_map
    fn,             \* "nonoise_map" or "binned_map"
    signal,         \* argument: the samples
    pixidx,         \* argument: the pixel index of each sample
    num_of_pixels,  \* argument: [isint, val]
    pc,             \* "start", "loop", "call", "returned", "raised"
    idx,            \* position of the loop of nonoise_map
    mappixels,      \* local array
    observed,       \* local array of nonoise_map
    hits,           \* local array of binned_map
    ret,            \* the returned value
    err,            \* the exception raised, "none" if none
    \* two ConditionMatrix objects and what is known of their history
    cm,             \* cm[a] = [numpix, matr]: the fields of object a
    fed,            \* fed[a]: the bag of (pixel, angle) samples given to update
    cond_map,       \* cond_map[a]: what to_map returned since the last update, <<>> if nothing
    requeried,      \* requeried[a]: an update has followed a to_map call on a
    svd_residue,    \* whether the SVD of this build leaves a rounding residue
    \* the workers of one run of binned_map_strip
    nside,          \* argument: the resolution of the maps
    comm,           \* argument: whether a communicator was given
    toi,            \* toi[w]: what worker w's ToiProvider supplies
    wpc,            \* wpc[w]: "start", "ready", "wait", "done", "raised"
    ncalls,         \* ncalls[w]: the allreduce calls of w that have returned
    local,          \* local[w]: the local maps [i, q, u, hits] of w
    contrib,        \* contrib[k][w]: what w handed to its k-th allreduce call
    glob,           \* glob[w]: what w's allreduce calls returned, in order
    result          \* result[w]: the tuple w returned

mapvars == <<fn, signal, pixidx, num_of_pixels, pc, idx, mappixels, observed, hits, ret, err>>
condvars == <<cm, fed, cond_map, requeried, svd_residue>>
stripvars == <<nside, comm, toi, wpc, ncalls, local, contrib, glob, result>>
vars == <<mapvars, condvars, stripvars>>

\* ------------------------------------------------- inputs of the calls
SigVals == {0, 1, 2}
\* Indices below 0 and at or above num_of_pixels are among the inputs.
PixVals == (-NPix) .. NPix
NumPixArgs == {[isint |-> TRUE, val |-> v] : v \in 0 .. NPix}
                  \cup {[isint |-> FALSE, val |-> NPix]}

\* ------------------------------------------------------- nonoise_map
\* The three assert statements that open nonoise_map and binned_map.
asserts_hold(sig, pix, n) ==
    /\ Len(sig) = Len(pix)
    /\ n.isint
    /\ n.val > 0

\* numpy indexing of an array of n entries: i in [-n, n) is accepted and a
\* negative i denotes entry n + i; any other i raises IndexError.
np_index_ok(n, i) == -n <= i /\ i < n
np_index(n, i) == IF i < 0 THEN n + i ELSE i

\* A variant that takes a pixel whose map value is still 0 for unseen.
unseen_mut(obs, map, p) == At(map, p) = Rat(0)
\* The test `not observed[cur_pixidx]`.
unseen(obs, map, p) == ~At(obs, p)

NonoiseStart ==
    /\ fn = "nonoise_map" /\ pc = "start"
    /\ IF asserts_hold(signal, pixidx, num_of_pixels)
       THEN /\ mappixels' = zeros(num_of_pixels.val)
            /\ observed' = zeros_bool(num_of_pixels.val)
            /\ idx' = 0
            /\ pc' = "loop"
            /\ err' = err
       ELSE /\ pc' = "raised"
            /\ err' = "AssertionError"
            /\ UNCHANGED <<mappixels, observed, idx>>
    /\ UNCHANGED <<fn, signal, pixidx, num_of_pixels, hits, ret>>
    /\ UNCHANGED <<condvars, stripvars>>

\* One iteration of the for loop.
NonoiseLoop ==
    /\ fn = "nonoise_map" /\ pc = "loop" /\ idx < Len(signal)
    /\ LET cur_signal == At(signal, idx)
           cur_pixidx == At(pixidx, idx)
           n == Len(mappixels)
           p == np_index(n, cur_pixidx)
       IN IF ~np_index_ok(n, cur_pixidx)
          THEN /\ pc' = "raised"
               /\ err' = "IndexError"
               /\ UNCHANGED <<mappixels, observed, idx>>
          ELSE /\ IF unseen(observed, mappixels, p)
                  THEN /\ mappixels' = Put(mappixels, p, Rat(cur_signal))
                       /\ observed' = Put(observed, p, TRUE)
                  ELSE UNCHANGED <<mappixels, observed>>
               /\ idx' = idx + 1
               /\ UNCHANGED <<pc, err>>
    /\ UNCHANGED <<fn, signal, pixidx, num_of_pixels, hits, ret>>
    /\ UNCHANGED <<condvars, stripvars>>

NonoiseReturn ==
    /\ fn = "nonoise_map" /\ pc = "loop" /\ idx = Len(signal)
    /\ ret' = mappixels
    /\ pc' = "returned"
    /\ UNCHANGED <<fn, signal, pixidx, num_of_pixels, idx, mappixels, observed, hits, err>>
    /\ UNCHANGED <<condvars, stripvars>>

\* nonoise_map as a function of its arguments, for valid arguments.
RECURSIVE nonoise_fold(_, _, _, _, _)
nonoise_fold(sig, pix, i, map, obs) ==
    IF i = Len(sig) THEN map
    ELSE LET p == np_index(Len(map), At(pix, i))
         IN IF unseen(obs, map, p)
            THEN nonoise_fold(sig, pix, i + 1, Put(map, p, Rat(At(sig, i))), Put(obs, p, TRUE))
            ELSE nonoise_fold(sig, pix, i + 1, map, obs)

nonoise_map(sig, pix, n) == nonoise_fold(sig, pix, 0, zeros(n), zeros_bool(n))

\* -------------------------------------------------------- binned_map
\* The extension routine _maptools.binned_map(signal, pixidx, mappixels, hits):
\* adds each sample to the running sum of its pixel and counts it, then
\* divides the sum of every pixel with hits by its hit count.
RECURSIVE m_binned_sum(_, _, _, _)
m_binned_sum(sig, pix, i, acc) ==
    IF i = Len(sig) THEN acc
    ELSE LET p == At(pix, i)
         IN m_binned_sum(sig, pix, i + 1,
                [mappixels |-> Put(acc.mappixels, p, RAdd(At(acc.mappixels, p), Rat(At(sig, i)))),
                 hits |-> Put(acc.hits, p, At(acc.hits, p) + 1)])

m_binned_map(sig, pix, map, hit) ==
    LET acc == m_binned_sum(sig, pix, 0, [mappixels |-> map, hits |-> hit])
    IN [mappixels |-> [k \in 1 .. Len(map) |->
                          IF acc.hits[k] > 0 THEN RDivInt(acc.mappixels[k], acc.hits[k])
                          ELSE acc.mappixels[k]],
        hits |-> acc.hits]

\* The routine's precondition on the indices, from the specification.
m_indices_ok(pix, n) == \A i \in Indices(pix) : 0 <= At(pix, i) /\ At(pix, i) < n

\* A variant that allocates one entry too many.
binned_alloc_mut(n) == [mappixels |-> zeros(n + 1), hits |-> zeros_int(n + 1)]
\* The two arrays binned_map allocates.
binned_alloc(n) == [mappixels |-> zeros(n), hits |-> zeros_int(n)]

BinnedStart ==
    /\ fn = "binned_map" /\ pc = "start"
    /\ IF asserts_hold(signal, pixidx, num_of_pixels)
       THEN /\ mappixels' = binned_alloc(num_of_pixels.val).mappixels
            /\ hits' = binned_alloc(num_of_pixels.val).hits
            /\ pc' = "call"
            /\ err' = err
       ELSE /\ pc' = "raised"
            /\ err' = "AssertionError"
            /\ UNCHANGED <<mappixels, hits>>
    /\ UNCHANGED <<fn, signal, pixidx, num_of_pixels, idx, observed, ret>>
    /\ UNCHANGED <<condvars, stripvars>>

\* The call of _m.binned_map and the return of the two arrays it filled.
BinnedCall ==
    /\ fn = "binned_map" /\ pc = "call"
    /\ IF m_indices_ok(pixidx, Len(mappixels))
       THEN LET r == m_binned_map(signal, pixidx, mappixels, hits)
            IN /\ mappixels' = r.mappixels
               /\ hits' = r.hits
               /\ ret' = <<r.mappixels, r.hits>>
               /\ pc' = "returned"
               /\ err' = err
       ELSE /\ pc' = "raised"
            /\ err' = "InvalidArgument"
            /\ UNCHANGED <<mappixels, hits, ret>>
    /\ UNCHANGED <<fn, signal, pixidx, num_of_pixels, idx, observed>>
    /\ UNCHANGED <<condvars, stripvars>>

\* binned_map as a function of its arguments, for valid arguments.
binned_map(sig, pix, n) ==
    LET a == binned_alloc(n) IN m_binned_map(sig, pix, a.mappixels, a.hits)

\* ------------------------------------------- properties of the two calls
\* The preconditions of the two functions: equal lengths, a positive integer
\* number of pixels, every index in [0, num_of_pixels).
ValidArgs ==
    /\ asserts_hold(signal, pixidx, num_of_pixels)
    /\ \A i \in Indices(pixidx) : 0 <= At(pixidx, i) /\ At(pixidx, i) < num_of_pixels.val

SamplesOn(pix, p) == {i \in Indices(pix) : At(pix, i) = p}

RECURSIVE SumOver(_, _)
SumOver(sig, I) ==
    IF I = {} THEN 0
    ELSE LET i == CHOOSE j \in I : TRUE IN At(sig, i) + SumOver(sig, I \ {i})

MinOf(I) == CHOOSE i \in I : \A j \in I : i <= j

Reverse(s) == [k \in 1 .. Len(s) |-> s[Len(s) + 1 - k]]

\* C2: binned_map returns two arrays of num_of_pixels entries; hits[p] is the
\* number of samples on pixel p and map[p] is the mean of their signals, 0
\* for a pixel without samples.
C2_BinnedMean ==
    (fn = "binned_map" /\ pc = "returned" /\ ValidArgs) =>
        /\ Len(ret[1]) = num_of_pixels.val
        /\ Len(ret[2]) = num_of_pixels.val
        /\ \A p \in 0 .. (num_of_pixels.val - 1) :
              LET I == SamplesOn(pixidx, p)
              IN /\ At(ret[2], p) = Cardinality(I)
                 /\ At(ret[1], p) = IF I = {} THEN Rat(0)
                                    ELSE Norm(SumOver(signal, I), Cardinality(I))

\* A returned binned map with a pixel of two hits and a fractional mean, and
\* a pixel without hits.
C2_Witness ==
    /\ fn = "binned_map" /\ pc = "returned" /\ ValidArgs
    /\ \E p, q \in 0 .. (num_of_pixels.val - 1) :
          /\ At(ret[2], p) = 2 /\ At(ret[1], p)[2] = 2
          /\ At(ret[2], q) = 0 /\ At(ret[1], q) = Rat(0)

\* C3: nonoise_map gives every pixel the signal of the first sample on it,
\* whatever the later samples hold and also when that signal is 0, and gives
\* 0 to a pixel without samples.
C3_FirstHit ==
    (fn = "nonoise_map" /\ pc = "returned" /\ ValidArgs) =>
        /\ Len(ret) = num_of_pixels.val
        /\ \A p \in 0 .. (num_of_pixels.val - 1) :
              LET I == SamplesOn(pixidx, p)
              IN At(ret, p) = IF I = {} THEN Rat(0) ELSE Rat(At(signal, MinOf(I)))

\* A returned map of a pixel whose first sample is 0 and whose later sample
\* is not, and which the samples in reverse order would map differently.
C3_Witness ==
    /\ fn = "nonoise_map" /\ pc = "returned" /\ ValidArgs
    /\ \E i, j \in Indices(pixidx) :
          /\ i < j /\ At(pixidx, i) = At(pixidx, j)
          /\ SamplesOn(pixidx, At(pixidx, i)) = {i, j}
          /\ At(signal, i) = 0 /\ At(signal, j) # 0
          /\ At(ret, At(pixidx, i)) = Rat(0)
    /\ nonoise_map(Reverse(signal), Reverse(pixidx), num_of_pixels.val) # ret

\* C4: a call with sequences of different lengths, a number of pixels that is
\* no positive integer, or an index outside [0, num_of_pixels) raises and
\* returns no map.
C4_InvalidArgsRaise == (pc = "returned") => ValidArgs

MapIdle ==
    /\ fn = "none" /\ signal = <<>> /\ pixidx = <<>>
    /\ num_of_pixels = [isint |-> TRUE, val |-> 0]
    /\ pc = "idle" /\ idx = 0 /\ mappixels = <<>> /\ observed = <<>>
    /\ hits = <<>> /\ ret = <<>> /\ err = "none"

MapInit ==
    /\ fn \in {"nonoise_map", "binned_map"}
    /\ signal \in SeqsUpTo(SigVals, MaxLen)
    /\ pixidx \in SeqsUpTo(PixVals, MaxLen)
    /\ num_of_pixels \in NumPixArgs
    /\ pc = "start"
    /\ idx = 0
    /\ mappixels = <<>>
    /\ observed = <<>>
    /\ hits = <<>>
    /\ ret = <<>>
    /\ err = "none"

MapNext == NonoiseStart \/ NonoiseLoop \/ NonoiseReturn \/ BinnedStart \/ BinnedCall

\* ---------------------------------------------------- ConditionMatrix
Accs == {1, 2}
\* Orientation angles in units of pi/4: 2*angle is 0, pi/2 or pi, whose
\* cosine and sine are 1, 0 and -1 exactly.
Angles == {0, 1, 2}
cos2(angle) == CASE angle = 0 -> 1 [] angle = 1 -> 0 [] angle = 2 -> -1
sin2(angle) == CASE angle = 0 -> 0 [] angle = 1 -> 1 [] angle = 2 -> 0

\* The design row (1, cos 2 psi, sin 2 psi) and its outer product with
\* itself, the nine entries row by row.
design_row(angle) == <<1, cos2(angle), sin2(angle)>>
outer(a) == [k \in 1 .. 9 |-> a[((k - 1) \div 3) + 1] * a[((k - 1) % 3) + 1]]
OuterOf == [angle \in Angles |-> outer(design_row(angle))]

\* np.zeros((numpix, 9)).
zeros9(numpix) == [p \in 1 .. numpix |-> [k \in 1 .. 9 |-> 0]]

\* ConditionMatrix.__init__.
cm_init(numpix) == [numpix |-> numpix, matr |-> zeros9(numpix)]

\* The extension routine _maptools.update_condmatr(numpix, pixidx, angle, m):
\* adds the outer product of each sample's design row to the matrix of the
\* sample's pixel.
RECURSIVE m_update_condmatr(_, _, _, _, _)
m_update_condmatr(numpix, pix, angle, m, i) ==
    IF i = Len(pix) THEN m
    ELSE LET p == At(pix, i)
             o == OuterOf[At(angle, i)]
         IN m_update_condmatr(numpix, pix, angle,
                Put(m, p, [k \in 1 .. 9 |-> At(m, p)[k] + o[k]]), i + 1)

\* A variant that hands the routine a fresh array instead of self.matr.
update_mut(self, pix, angle) ==
    [self EXCEPT !.matr = m_update_condmatr(self.numpix, pix, angle, zeros9(self.numpix), 0)]
\* ConditionMatrix.update: the object after the call.
update(self, pix, angle) ==
    [self EXCEPT !.matr = m_update_condmatr(self.numpix, pix, angle, self.matr, 0)]

\* The coefficients of the characteristic polynomial
\* x^3 - Tr x^2 + Minors2 x - Det3 of a 3x3 matrix m.
Tr(m) == m[1] + m[5] + m[9]
Minors2(m) == (m[1] * m[5] - m[2] * m[4]) + (m[1] * m[9] - m[3] * m[7])
                 + (m[5] * m[9] - m[6] * m[8])
Det3(m) == m[1] * (m[5] * m[9] - m[6] * m[8]) - m[2] * (m[4] * m[9] - m[6] * m[7])
              + m[3] * (m[4] * m[8] - m[5] * m[7])

\* The polynomial x^3 - t x^2 + m2 x - d and its derivatives at
\* x = a/Resolution, scaled to integers.
Poly0(t, m2, d, a) == a * a * a - t * Resolution * a * a
                         + m2 * Resolution * Resolution * a
                         - d * Resolution * Resolution * Resolution
Poly1(t, m2, d, a) == 3 * a * a - 2 * t * Resolution * a + m2 * Resolution * Resolution
Poly2(t, m2, d, a) == 3 * a - t * Resolution

\* The matrices accumulated are symmetric and positive semi-definite: their
\* singular values are their eigenvalues, the three real roots >= 0 of the
\* polynomial, the smallest at most t/3 and the largest at least t/3 and at
\* most t.  a/Resolution is at most the smallest root, at least the largest.
BelowSmallest(t, m2, d, a) ==
    Poly0(t, m2, d, a) <= 0 /\ Poly1(t, m2, d, a) >= 0 /\ Poly2(t, m2, d, a) <= 0
AboveLargest(t, m2, d, a) ==
    Poly0(t, m2, d, a) >= 0 /\ Poly1(t, m2, d, a) >= 0 /\ Poly2(t, m2, d, a) >= 0

\* The smallest singular value rounded down and the largest rounded up, in
\* units of 1/Resolution.
RootFloor(t, m2, d) == CHOOSE a \in 0 .. ((Resolution * t) \div 3) :
                          BelowSmallest(t, m2, d, a) /\ ~BelowSmallest(t, m2, d, a + 1)
RootCeil(t, m2, d) == CHOOSE a \in ((Resolution * t) \div 3) .. (Resolution * t) :
                         AboveLargest(t, m2, d, a) /\ ~AboveLargest(t, m2, d, a - 1)
sv_min(m) == RootFloor(Tr(m), Minors2(m), Det3(m))
sv_max(m) == RootCeil(Tr(m), Minors2(m), Det3(m))

Inf == <<1, 0>>
\* A rounding residue: a positive number below every exact non-zero value.
Residue == <<1, 1000000>>

\* np.linalg.cond(m): the largest singular value of the SVD divided by the
\* smallest, inf when the smallest is 0.  For a rank-deficient matrix the
\* smallest singular value LAPACK computes is 0 or a rounding residue.
np_linalg_cond(m, residue) ==
    LET lo == sv_min(m)
        smax == <<sv_max(m), Resolution>>
        smin == IF lo = 0
                THEN (IF residue THEN Residue ELSE Rat(0))
                ELSE <<lo, Resolution>>
    IN IF smin[1] = 0 THEN Inf
       ELSE Norm(smax[1] * smin[2], smax[2] * smin[1])

\* 1.0 / x for x > 0 or inf.
reciprocal(x) == IF x = Inf THEN Rat(0) ELSE Norm(x[2], x[1])

\* A variant that empties the accumulator once the map is computed.
to_map_reset(self, residue) ==
    [self |-> cm_init(self.numpix),
     cond_map |-> [p \in 1 .. self.numpix |->
                      IF self.matr[p][1] > 0
                      THEN reciprocal(np_linalg_cond(self.matr[p], residue))
                      ELSE Rat(0)]]
\* A variant that stores the condition number, not its reciprocal.
to_map_cond(self, residue) ==
    [self |-> self,
     cond_map |-> [p \in 1 .. self.numpix |->
                      IF self.matr[p][1] > 0
                      THEN np_linalg_cond(self.matr[p], residue)
                      ELSE Rat(0)]]
\* ConditionMatrix.to_map: the object after the call and the map returned.
to_map(self, residue) ==
    [self |-> self,
     cond_map |-> [p \in 1 .. self.numpix |->
                      IF self.matr[p][1] > 0
                      THEN reciprocal(np_linalg_cond(self.matr[p], residue))
                      ELSE Rat(0)]]

\* The batches given to update, as two parallel arrays of n = 1 or 2 samples.
Batches(numpix, n) ==
    LET S == (0 .. (numpix - 1)) \X Angles
    IN IF n = 1
       THEN {[pixidx |-> <<x[1]>>, angle |-> <<x[2]>>] : x \in S}
       ELSE {[pixidx |-> <<x[1], y[1]>>, angle |-> <<x[2], y[2]>>] : x, y \in S}

\* The objects are created for one or two pixels.
NumpixArgs == {1, 2}
\* The multiset of (pixel, angle) samples an object has been fed so far.
Kinds == {0, 1} \X Angles
EmptyBag == [k \in Kinds |-> 0]
BagSize(b) == LET RECURSIVE S(_)
                  S(K) == IF K = {} THEN 0
                          ELSE LET k == CHOOSE x \in K : TRUE IN b[k] + S(K \ {k})
              IN S(Kinds)
RECURSIVE BagAdd(_, _, _, _)
BagAdd(b, pix, angle, i) ==
    IF i = Len(pix) THEN b
    ELSE LET k == <<At(pix, i), At(angle, i)>>
         IN BagAdd([b EXCEPT ![k] = @ + 1], pix, angle, i + 1)

CondUpdate(a, batch) ==
    /\ cm' = [cm EXCEPT ![a] = update(cm[a], batch.pixidx, batch.angle)]
    /\ fed' = [fed EXCEPT ![a] = BagAdd(fed[a], batch.pixidx, batch.angle, 0)]
    /\ cond_map' = [cond_map EXCEPT ![a] = <<>>]
    /\ requeried' = [requeried EXCEPT ![a] = @ \/ cond_map[a] # <<>>]
    /\ UNCHANGED <<svd_residue, mapvars, stripvars>>

CondToMap(a) ==
    /\ LET r == to_map(cm[a], svd_residue)
       IN /\ cm' = [cm EXCEPT ![a] = r.self]
          /\ cond_map' = [cond_map EXCEPT ![a] = r.cond_map]
    /\ UNCHANGED <<fed, requeried, svd_residue, mapvars, stripvars>>

CondIdle ==
    /\ cm = <<>> /\ fed = <<>> /\ cond_map = <<>> /\ requeried = <<>>
    /\ svd_residue = FALSE

CondInit ==
    /\ \E numpix \in NumpixArgs : cm = [a \in Accs |-> cm_init(numpix)]
    /\ fed = [a \in Accs |-> EmptyBag]
    /\ cond_map = [a \in Accs |-> <<>>]
    /\ requeried = [a \in Accs |-> FALSE]
    /\ svd_residue \in BOOLEAN

CondNext ==
    \/ \E n \in {m \in {1, 2} : BagSize(fed[1]) + BagSize(fed[2]) + m <= MaxFed} :
          \E a \in Accs : \E batch \in Batches(cm[a].numpix, n) : CondUpdate(a, batch)
    \/ \E a \in Accs : CondToMap(a)

\* ------------------------------------- properties of ConditionMatrix
\* The number of samples of bag b on pixel p, and the matrices a bag of
\* samples amounts to: for each pixel the sum, over the angles, of the outer
\* product of the design row times the number of samples of that angle.
RECURSIVE SumAngles(_, _, _, _)
SumAngles(b, p, k, A) ==
    IF A = {} THEN 0
    ELSE LET x == CHOOSE y \in A : TRUE
         IN b[<<p, x>>] * OuterOf[x][k] + SumAngles(b, p, k, A \ {x})
RECURSIVE CountAngles(_, _, _)
CountAngles(b, p, A) ==
    IF A = {} THEN 0
    ELSE LET x == CHOOSE y \in A : TRUE IN b[<<p, x>>] + CountAngles(b, p, A \ {x})
HitsOfBag(b, p) == CountAngles(b, p, Angles)
MatrOfBag(b, numpix) ==
    [q \in 1 .. numpix |-> [k \in 1 .. 9 |-> SumAngles(b, q - 1, k, Angles)]]
BagUnion(b1, b2) == [k \in Kinds |-> b1[k] + b2[k]]
MatAdd(m1, m2) == [q \in 1 .. Len(m1) |-> [k \in 1 .. 9 |-> m1[q][k] + m2[q][k]]]

InUnit(v) == v[2] > 0 /\ 0 <= v[1] /\ v[1] <= v[2]

\* C6: to_map leaves numpix and the matrices as the updates made them, and
\* the map it returned since the last update is the map of the samples
\* accumulated so far, whatever to_map calls came before.
C6_ToMapPure ==
    \A a \in Accs :
        /\ cm[a].numpix = cm[1].numpix
        /\ cm[a].matr = MatrOfBag(fed[a], cm[1].numpix)
        /\ cond_map[a] # <<>> =>
              cond_map[a] = to_map([numpix |-> cm[1].numpix,
                                    matr |-> MatrOfBag(fed[a], cm[1].numpix)],
                                   svd_residue).cond_map

\* to_map has been called, then update, then to_map again, on an object
\* holding samples; the map is not all zero.
C6_Witness ==
    \E a \in Accs :
        /\ requeried[a] /\ cond_map[a] # <<>>
        /\ \E p \in 0 .. (cm[a].numpix - 1) : At(cond_map[a], p) # Rat(0)

\* C7: the (0,0) entry of each pixel's matrix is the number of samples given
\* for the pixel; to_map returns numpix entries, each in [0,1] and 0 for a
\* pixel without samples.
C7_HitsAndUnitRange ==
    \A a \in Accs :
        /\ \A p \in 0 .. (cm[a].numpix - 1) : At(cm[a].matr, p)[1] = HitsOfBag(fed[a], p)
        /\ cond_map[a] # <<>> =>
              /\ Len(cond_map[a]) = cm[a].numpix
              /\ \A p \in 0 .. (cm[a].numpix - 1) :
                    /\ InUnit(At(cond_map[a], p))
                    /\ HitsOfBag(fed[a], p) = 0 => At(cond_map[a], p) = Rat(0)

\* A map with an entry strictly between 0 and 1 and an entry of a pixel
\* without samples.
C7_Witness ==
    \E a \in Accs :
        /\ cond_map[a] # <<>>
        /\ \E p, q \in 0 .. (cm[a].numpix - 1) :
              /\ HitsOfBag(fed[a], p) = 3
              /\ 0 < At(cond_map[a], p)[1] /\ At(cond_map[a], p)[1] < At(cond_map[a], p)[2]
              /\ HitsOfBag(fed[a], q) = 0 /\ At(cond_map[a], q) = Rat(0)

\* C8: to_map stores exactly 0 for a pixel whose samples, one or more, all
\* share one orientation angle.
C8_SingleAngleIsZero ==
    \A a \in Accs :
        cond_map[a] # <<>> =>
            \A p \in 0 .. (cm[a].numpix - 1) :
                (\E x \in Angles : fed[a][<<p, x>>] >= 1 /\ fed[a][<<p, x>>] = HitsOfBag(fed[a], p))
                    => At(cond_map[a], p) = Rat(0)

\* C10: the matrices of an object are those of the bag of samples it was
\* given, in whatever order and batches, and the sum of the matrices of the
\* two objects is the matrices of the union of their bags.
C10_BagDetermines ==
    /\ \A a \in Accs : cm[a].matr = MatrOfBag(fed[a], cm[a].numpix)
    /\ MatAdd(cm[1].matr, cm[2].matr) = MatrOfBag(BagUnion(fed[1], fed[2]), cm[1].numpix)

\* Both objects hold samples, one of them two samples of different angles on
\* one pixel, the other a sample on that pixel.
C10_Witness ==
    \E p \in 0 .. (cm[1].numpix - 1) : \E x, y \in Angles :
        /\ x # y /\ fed[1][<<p, x>>] >= 1 /\ fed[1][<<p, y>>] >= 1
        /\ HitsOfBag(fed[2], p) >= 1


\* ---------------------------------------------------- binned_map_strip
Workers == 1 .. NumWorkers

\* healpy.nside2npix.
nside2npix(n) == 12 * n * n

\* The samples a ToiProvider supplies: a pixel, the four channels Q1, Q2,
\* U1, U2 and the polarization angle in units of pi/4.  Two kinds of sample
\* fall on pixel 0 and one on pixel 1; their sums of channels are 1, 2, 3.
StripSamples ==
    {[pix |-> 0, ch |-> <<1, 0, 0, 0>>, psi |-> 0],
     [pix |-> 0, ch |-> <<1, 1, 0, 0>>, psi |-> 1],
     [pix |-> 1, ch |-> <<1, 1, 1, 0>>, psi |-> 2]}

\* Every way to give k workers sequences of samples, n samples at most.
RECURSIVE Splits(_, _)
Splits(k, n) ==
    IF k = 0 THEN {<<>>}
    ELSE UNION {{<<s>> \o rest : rest \in Splits(k - 1, n - Len(s))} :
                   s \in SeqsUpTo(StripSamples, n)}

\* What the provider of a worker returns for a sequence of samples; a
\* provider is short when its pixel indices are one fewer than its samples.
Provider(s, short) ==
    [signals |-> [c \in 1 .. 4 |-> [i \in 1 .. Len(s) |-> s[i].ch[c]]],
     psi |-> [i \in 1 .. Len(s) |-> s[i].psi],
     pixidx |-> [i \in 1 .. (IF short THEN Len(s) - 1 ELSE Len(s)) |-> s[i].pix]]

\* polarization.rotate_qu: the rotation of (q, u) by the angle 2 psi,
\* backwards when inverse, sample by sample.
rotate_qu(q_from, u_from, psi, inverse) ==
    LET sgn == IF inverse THEN -1 ELSE 1
    IN [q |-> [i \in 1 .. Len(q_from) |->
                  q_from[i] * cos2(psi[i]) + sgn * u_from[i] * sin2(psi[i])],
        u |-> [i \in 1 .. Len(u_from) |->
                  u_from[i] * cos2(psi[i]) - sgn * q_from[i] * sin2(psi[i])]]

\* The signals of the three maps: np.sum(signals, axis=0) and the rotated
\* 2 (Q1 + Q2), 2 (U1 + U2).
strip_signals(t) ==
    LET n == Len(t.psi)
        rot == rotate_qu([i \in 1 .. n |-> 2 * (t.signals[1][i] + t.signals[2][i])],
                         [i \in 1 .. n |-> 2 * (t.signals[3][i] + t.signals[4][i])],
                         t.psi, TRUE)
    IN [i |-> [k \in 1 .. n |-> t.signals[1][k] + t.signals[2][k]
                                   + t.signals[3][k] + t.signals[4][k]],
        q |-> rot.q,
        u |-> rot.u]

\* The three calls of binned_map that compute the local maps.
local_maps(t, npix) ==
    LET sig == strip_signals(t)
    IN [i |-> binned_map(sig.i, t.pixidx, npix).mappixels,
        q |-> binned_map(sig.q, t.pixidx, npix).mappixels,
        u |-> binned_map(sig.u, t.pixidx, npix).mappixels,
        hits |-> binned_map(sig.u, t.pixidx, npix).hits]

\* The test `if comm:`.
use_comm(c) == c

\* A variant in which worker 1 reduces Q before I.
ReduceOrder_mut(w) == IF w = 1 THEN <<"hits", "q", "i", "u">> ELSE <<"hits", "i", "q", "u">>
\* The order in which a worker calls allreduce.
ReduceOrder(w) == <<"hits", "i", "q", "u">>

\* A variant that reduces the local means themselves.
weighted_mut(map, hit) == map
\* local_i * local_hits, entry by entry.
weighted(map, hit) == [p \in 1 .. Len(map) |-> RMulInt(map[p], hit[p])]

\* The argument of a worker's allreduce call for one of the four quantities.
payload(l, what) ==
    [what |-> what,
     data |-> CASE what = "hits" -> l.hits
                [] what = "i" -> weighted(l.i, l.hits)
                [] what = "q" -> weighted(l.q, l.hits)
                [] what = "u" -> weighted(l.u, l.hits)]

\* comm.allreduce: the k-th call of every worker of the communicator joins
\* one reduction, which returns to each of them, once all of them have
\* called, the sum of their arguments entry by entry.
all_called(k) == \A v \in Workers : contrib[k][v] # <<>>
RECURSIVE SumData(_, _, _)
SumData(k, W, ishits) ==
    IF W = {} THEN (IF ishits THEN zeros_int(nside2npix(nside)) ELSE zeros(nside2npix(nside)))
    ELSE LET v == CHOOSE x \in W : TRUE
             rest == SumData(k, W \ {v}, ishits)
         IN [p \in 1 .. Len(rest) |->
                IF ishits THEN rest[p] + contrib[k][v].data[p]
                ELSE RAdd(rest[p], contrib[k][v].data[p])]
allreduce(k, what) == SumData(k, Workers, what = "hits")

\* cur_map[mask] /= global_hits[mask] with mask = global_hits > 0.
normalize(map, global_hits) ==
    [p \in 1 .. Len(map) |->
        IF global_hits[p] > 0 THEN RDivInt(map[p], global_hits[p]) ELSE map[p]]

\* The tuples binned_map_strip returns.
global_result(g) == <<normalize(g[2], g[1]), normalize(g[3], g[1]), normalize(g[4], g[1]), g[1]>>
\* A variant that returns U in the place of Q.
local_result_mut(l) == <<l.i, l.u, l.q, l.hits>>
local_result(l) == <<l.i, l.q, l.u, l.hits>>

\* Reading the TOI and computing the local maps; an assert of binned_map
\* fails when the provider's sequences differ in length.
StripLocal(w) ==
    /\ wpc[w] = "start"
    /\ IF asserts_hold(strip_signals(toi[w]).i, toi[w].pixidx,
                       [isint |-> TRUE, val |-> nside2npix(nside)])
       THEN /\ local' = [local EXCEPT ![w] = local_maps(toi[w], nside2npix(nside))]
            /\ wpc' = [wpc EXCEPT ![w] = "ready"]
       ELSE /\ wpc' = [wpc EXCEPT ![w] = "raised"]
            /\ UNCHANGED local
    /\ UNCHANGED <<nside, comm, toi, ncalls, contrib, glob, result>>
    /\ UNCHANGED <<mapvars, condvars>>

\* Without a communicator: the local maps are returned.
StripReturnLocal(w) ==
    /\ wpc[w] = "ready" /\ ~use_comm(comm)
    /\ result' = [result EXCEPT ![w] = local_result(local[w])]
    /\ wpc' = [wpc EXCEPT ![w] = "done"]
    /\ UNCHANGED <<nside, comm, toi, ncalls, local, contrib, glob>>
    /\ UNCHANGED <<mapvars, condvars>>

\* The next of the four allreduce calls is entered ...
StripAllreduceCall(w) ==
    /\ wpc[w] = "ready" /\ use_comm(comm) /\ ncalls[w] < 4
    /\ LET k == ncalls[w] + 1
       IN contrib' = [contrib EXCEPT ![k][w] = payload(local[w], ReduceOrder(w)[k])]
    /\ wpc' = [wpc EXCEPT ![w] = "wait"]
    /\ UNCHANGED <<nside, comm, toi, ncalls, local, glob, result>>
    /\ UNCHANGED <<mapvars, condvars>>

\* ... and returns once every worker has entered it.
StripAllreduceReturn(w) ==
    /\ wpc[w] = "wait"
    /\ LET k == ncalls[w] + 1
       IN /\ all_called(k)
          /\ glob' = [glob EXCEPT ![w] = Append(@, allreduce(k, ReduceOrder(w)[k]))]
          /\ ncalls' = [ncalls EXCEPT ![w] = k]
    /\ wpc' = [wpc EXCEPT ![w] = "ready"]
    /\ UNCHANGED <<nside, comm, toi, local, contrib, result>>
    /\ UNCHANGED <<mapvars, condvars>>

\* The three global maps are divided by the global hits and returned.
StripReturnGlobal(w) ==
    /\ wpc[w] = "ready" /\ use_comm(comm) /\ ncalls[w] = 4
    /\ result' = [result EXCEPT ![w] = global_result(glob[w])]
    /\ wpc' = [wpc EXCEPT ![w] = "done"]
    /\ UNCHANGED <<nside, comm, toi, ncalls, local, contrib, glob>>
    /\ UNCHANGED <<mapvars, condvars>>

\* ----------------------------------- properties of binned_map_strip
\* The signals and pixel indices of the workers 1 .. k, one after the other.
RECURSIVE AllSignals(_, _)
AllSignals(k, which) ==
    IF k = 0 THEN <<>>
    ELSE AllSignals(k - 1, which)
            \o (CASE which = "i" -> strip_signals(toi[k]).i
                  [] which = "q" -> strip_signals(toi[k]).q
                  [] which = "u" -> strip_signals(toi[k]).u
                  [] which = "pix" -> toi[k].pixidx)

\* binned_map run once on the samples of all the workers.
FullRun(which) ==
    binned_map(AllSignals(NumWorkers, which), AllSignals(NumWorkers, "pix"),
               nside2npix(nside))

\* C1: with a communicator, the maps and hits a worker returns are those of
\* binned_map run once on the samples of all the workers together.
C1_ReductionIsFullRun ==
    \A w \in Workers :
        (comm /\ wpc[w] = "done") =>
            result[w] = <<FullRun("i").mappixels, FullRun("q").mappixels,
                          FullRun("u").mappixels, FullRun("i").hits>>

\* Every worker has returned; a pixel has two samples of one worker and one
\* of another, and their local means differ.
C1_Witness ==
    /\ comm /\ \A w \in Workers : wpc[w] = "done"
    /\ \E w1, w2 \in Workers : \E p \in 1 .. nside2npix(nside) :
          /\ local[w1].hits[p] = 2 /\ local[w2].hits[p] = 1
          /\ local[w1].i[p] # local[w2].i[p]
          /\ result[w1][1][p][2] = 3

\* C5: without a communicator a worker hands nothing to a reduction and
\* returns the maps and hits binned_map gives for its own samples; a worker
\* whose provider is well formed does not raise.
C5_NoCommReturnsLocal ==
    \A w \in Workers :
        ~comm =>
            /\ \A k \in 1 .. 4 : contrib[k][w] = <<>>
            /\ glob[w] = <<>>
            /\ Len(toi[w].pixidx) = Len(toi[w].psi) => wpc[w] # "raised"
            /\ wpc[w] = "done" =>
                  LET sig == strip_signals(toi[w])
                      npix == nside2npix(nside)
                  IN result[w] = <<binned_map(sig.i, toi[w].pixidx, npix).mappixels,
                                   binned_map(sig.q, toi[w].pixidx, npix).mappixels,
                                   binned_map(sig.u, toi[w].pixidx, npix).mappixels,
                                   binned_map(sig.i, toi[w].pixidx, npix).hits>>

\* A worker without communicator has returned maps of a pixel with two
\* samples, whose Q and U maps differ.
C5_Witness ==
    /\ ~comm
    /\ \E w \in Workers :
          /\ wpc[w] = "done"
          /\ \E p \in 1 .. nside2npix(nside) : result[w][4][p] = 2 /\ result[w][1][p][2] = 2
          /\ result[w][2] # result[w][3]

\* C9: an allreduce call returns to a worker only once every worker has
\* entered it, so a worker that has returned has seen every worker enter
\* all four; the k-th calls of the workers carry the same quantity; the
\* workers that return, return the same maps.
C9_BlockingCollectives ==
    /\ \A w \in Workers : \A k \in 1 .. 4 :
          (k <= ncalls[w] \/ (comm /\ wpc[w] = "done")) => all_called(k)
    /\ \A k \in 1 .. 4 : \A v1, v2 \in Workers :
          (contrib[k][v1] # <<>> /\ contrib[k][v2] # <<>>) =>
              contrib[k][v1].what = contrib[k][v2].what
    /\ \A w1, w2 \in Workers :
          (comm /\ wpc[w1] = "done" /\ wpc[w2] = "done") => result[w1] = result[w2]

\* One worker has returned its global maps while another has still to
\* divide its own.
C9_Witness ==
    /\ comm
    /\ \E w, v \in Workers :
          /\ wpc[w] = "done" /\ wpc[v] = "ready" /\ ncalls[v] = 4
          /\ \E p \in 1 .. nside2npix(nside) : result[w][4][p] > 0

StripIdle ==
    /\ nside = 0 /\ comm = FALSE /\ toi = <<>> /\ wpc = <<>> /\ ncalls = <<>>
    /\ local = <<>> /\ contrib = <<>> /\ glob = <<>> /\ result = <<>>

StripInit ==
    /\ nside = 1
    /\ comm \in BOOLEAN
    /\ \E s \in Splits(NumWorkers, MaxSamples) : \E bad \in 0 .. NumWorkers :
          /\ bad # 0 => Len(s[bad]) > 0
          /\ toi = [w \in Workers |-> Provider(s[w], w = bad)]
    /\ wpc = [w \in Workers |-> "start"]
    /\ ncalls = [w \in Workers |-> 0]
    /\ local = [w \in Workers |-> <<>>]
    /\ contrib = [k \in 1 .. 4 |-> [w \in Workers |-> <<>>]]
    /\ glob = [w \in Workers |-> <<>>]
    /\ result = [w \in Workers |-> <<>>]

StripNext ==
    \/ \E w \in Workers : StripLocal(w)
    \/ \E w \in Workers : StripReturnLocal(w)
    \/ \E w \in Workers : StripAllreduceCall(w)
    \/ \E w \in Workers : StripAllreduceReturn(w)
    \/ \E w \in Workers : StripReturnGlobal(w)

\* ------------------------------------------------------ specifications
\* Calls of nonoise_map and binned_map on every argument of the input sets.
InitMap == MapInit /\ CondIdle /\ StripIdle
SpecMap == InitMap /\ [][MapNext]_vars

\* Two ConditionMatrix objects, updated and queried in any order.
InitCond == CondInit /\ MapIdle /\ StripIdle
SpecCond == InitCond /\ [][CondNext]_vars

\* The workers of one run of binned_map_strip, in any interleaving.
InitStrip == StripInit /\ MapIdle /\ CondIdle
SpecStrip == InitStrip /\ [][StripNext]_vars
====
